---- MODULE Spec2Model ----
(***************************************************************************)
(* Ottoman Turkish transliteration with offset preservation                *)
(* (python/durak/ottoman): character tables, the transliterator, the       *)
(* composition of the Arabic -> scholarly and scholarly -> Modern offset   *)
(* maps, and the processor's token reconciliation.                         *)
(*                                                                         *)
(* A text is a sequence of characters; a character is written by a short   *)
(* name and CodePoint gives its Unicode codepoint:                         *)
(*   QAF U+0642, AYN U+0639, SE U+062B, SIN U+0633, VASL U+0671 (Arabic)   *)
(*   KDOT U+1E33 (k with dot below), SDOT U+1E63 (s with dot below),       *)
(*   AYNL U+02BF (modifier half ring), DOT U+0323 (combining dot below),   *)
(*   MB U+0331 (combining macron below), SP U+0020, KEF U+0643 (Arabic),   *)
(*   ADOT U+1EA1 (a with dot below), VAV U+0648, ELIF U+0627 (Arabic),     *)
(*   FATHATAN U+064B (Arabic, combining), AMAC U+0101 (a with macron),     *)
(*   and k, s, a, p, v, n, K;                                              *)
(*   the context rules also name DOTLESS_I U+0131, UUML U+00FC and the     *)
(*   letters e, i, u, b, r, g, y, o.                                       *)
(***************************************************************************)
EXTENDS Integers, Sequences, FiniteSets, TLC

VARIABLES
    use_context_rules,    \* OttomanTransliterator.use_context_rules
    preserve_diacritics,  \* OttomanTransliterator.preserve_diacritics
    pc,                   \* "idle", or "returned" after a call
    op,                   \* the transliterator method called last
    arg,                  \* its argument
    ret,                  \* the TransliterationMapping it returned
    auto_transliterate,   \* OttomanConfig.auto_transliterate
    preserve_original,    \* OttomanConfig.preserve_original
    stopwords,            \* OttomanProcessor.stopwords
    suffixes,             \* OttomanProcessor.suffixes
    language_variant,     \* OttomanConfig.language_variant
    lowercase,            \* OttomanConfig.lowercase
    use_durak_stopwords,  \* OttomanConfig.use_durak_stopwords
    custom_stopwords,     \* OttomanConfig.custom_stopwords
    custom_suffixes,      \* OttomanConfig.custom_suffixes
    input_type,           \* process(): type(text).__name__ of the argument
    cleaned,              \* process(): the cleaned text
    script_type,          \* process(): the detected script
    full_mapping,         \* process(): <<mapping>>, or <<>> for None
    tokens,               \* process(): the tokenizer's output
    search_start,         \* process(): the search cursor
    trans_idx,            \* process(): where the last token was located
    processed_tokens,     \* process(): output tokens so far
    original_tokens_result, \* process(): <<list>>, or <<>> for None
    offset_mappings,      \* process(): per-token mappings so far
    script_types,         \* process(): per-token script types so far
    result,               \* the OttomanProcessingResult returned
    texts,                \* process_batch(): the texts of the batch
    results,              \* process_batch(): the results so far
    raised,               \* <<exception>> that escaped the last call, or <<>>
    previous              \* <<processor>> the caller used before, or <<>>

tvars == <<use_context_rules, preserve_diacritics, op, arg, ret>>

kvars == <<language_variant, lowercase, use_durak_stopwords, custom_stopwords,
           custom_suffixes>>

cvars == <<auto_transliterate, preserve_original, stopwords, suffixes, kvars>>

lvars == <<cleaned, script_type, full_mapping, tokens, search_start, trans_idx,
           processed_tokens, original_tokens_result, offset_mappings,
           script_types, result>>

pvars == <<input_type, lvars>>

bvars == <<texts, results>>

xvars == <<raised, previous>>

vars == <<pc, tvars, cvars, pvars, bvars, xvars>>

----------------------------------------------------------------------------
(* Bounds *)

MaxLen == 3

----------------------------------------------------------------------------
(* Characters *)

NONE == "NONE"

CodePoint(c) ==
    CASE c = "QAF"  -> 1602
      [] c = "AYN"  -> 1593
      [] c = "SE"   -> 1579
      [] c = "SIN"  -> 1587
      [] c = "VASL" -> 1649
      [] c = "KEF"  -> 1603
      [] c = "VAV"  -> 1608
      [] c = "KDOT" -> 7731
      [] c = "SDOT" -> 7779
      [] c = "AYNL" -> 703
      [] c = "DOT"  -> 803
      [] c = "MB"   -> 817
      [] c = "SP"   -> 32
      [] c = "K"    -> 75
      [] c = "k"    -> 107
      [] c = "s"    -> 115
      [] c = "a"    -> 97
      [] c = "ADOT" -> 7841
      [] c = "ELIF" -> 1575
      [] c = "FATHATAN" -> 1611
      [] c = "AMAC" -> 257
      [] c = "p"    -> 112
      [] c = "v"    -> 118
      [] c = "n"    -> 110
      [] c = "U05FF" -> 1535
      [] c = "U0600" -> 1536
      [] c = "U06FF" -> 1791
      [] c = "U0700" -> 1792
      [] c = "U074F" -> 1871
      [] c = "U0750" -> 1872
      [] c = "U077F" -> 1919
      [] c = "U0780" -> 1920
      [] c = "U089F" -> 2207
      [] c = "U08A0" -> 2208
      [] c = "U08FF" -> 2303
      [] c = "U0900" -> 2304
      [] OTHER      -> 0

\* The characters a caller's text is drawn from.
InputChars ==
    {"QAF", "AYN", "SE", "SIN", "VASL", "KEF", "KDOT", "AYNL", "DOT", "SP", "s", "a"}

RECURSIVE SeqsUpTo(_, _)
SeqsUpTo(S, n) ==
    IF n = 0 THEN {<<>>}
    ELSE LET shorter == SeqsUpTo(S, n - 1)
         IN  shorter \cup {Append(t, c) : t \in {u \in shorter : Len(u) = n - 1}, c \in S}

\* The characters of the texts that exercise the context rules and the
\* tenvin digraph.
RuleChars == {"KEF", "VAV", "FATHATAN", "ELIF", "k", "p", "a"}

Texts == SeqsUpTo(InputChars, MaxLen) \cup SeqsUpTo(RuleChars, MaxLen)

\* The characters a text given to process() is drawn from.
ProcessChars == {"QAF", "SIN", "SE", "VASL", "KDOT", "AYNL", "DOT", "SP", "k"}

ProcessTexts == SeqsUpTo(ProcessChars, MaxLen)

----------------------------------------------------------------------------
(* char_maps.py *)

\* The sequence of two characters that is a key of ARABIC_TO_LATIN.
TENVIN == <<"FATHATAN", "ELIF">>

\* A key is a character, or FATHATAN_ELIF for the two-character key TENVIN.
ARABIC_TO_LATIN ==
    [c \in {"QAF", "AYN", "SE", "SIN", "VASL", "ELIF", "VAV", "FATHATAN_ELIF"} |->
        CASE c = "QAF"  -> <<"KDOT">>
          [] c = "AYN"  -> <<"AYNL">>
          [] c = "SE"   -> <<"s", "MB">>
          [] c = "SIN"  -> <<"s">>
          [] c = "ELIF" -> <<"AMAC">>
          [] c = "VAV"  -> <<"v">>
          [] c = "FATHATAN_ELIF" -> <<"a", "n">>
          [] c = "VASL" -> <<>>]

SCHOLARLY_TO_MODERN ==
    [c \in {"KDOT", "SDOT", "AYNL", "AMAC", "k", "s", "p", "v", "n"} |->
        CASE c = "KDOT" -> <<"k">>
          [] c = "SDOT" -> <<"s">>
          [] c = "AYNL" -> <<>>
          [] c = "AMAC" -> <<"a">>
          [] c = "k"    -> <<"k">>
          [] c = "s"    -> <<"s">>
          [] c = "p"    -> <<"p">>
          [] c = "v"    -> <<"v">>
          [] c = "n"    -> <<"n">>]

SCHOLARLY_DIACRITIC_CHARS == {"KDOT", "SDOT", "AYNL", "AMAC"}

AMBIGUOUS_MAPPINGS == {"KEF", "QAF", "VAV"}

\* (rule_prev, rule_char, rule_next, result); NONE is Python's None.
CONTEXT_RULES ==
    << <<NONE, "KEF", NONE, <<"k">> >>,
       <<"SP", "KEF", NONE, <<"k">> >>,
       <<"a",  "KEF", "a",  <<"g">> >>,
       <<"e",  "KEF", "e",  <<"g">> >>,
       <<"DOTLESS_I", "KEF", "DOTLESS_I", <<"g">> >>,
       <<"i",  "KEF", "i",  <<"g">> >>,
       <<"u",  "KEF", "u",  <<"g">> >>,
       <<"UUML", "KEF", "UUML", <<"g">> >>,
       <<NONE, "KEF", "e",  <<"y">> >>,
       <<NONE, "KEF", "i",  <<"y">> >>,
       <<NONE, "KEF", "UUML", <<"y">> >>,
       <<"b",  "VAV", "r",  <<"o">> >>,
       <<"k",  "VAV", "p",  <<"u">> >> >>

ARABIC_RANGE == 1536 .. (1791 - 1)
ARABIC_SUPPLEMENT == 1872 .. (1919 - 1)
ARABIC_EXTENDED_A == 2208 .. (2303 - 1)

is_arabic_char(c) ==
    LET code == CodePoint(c)
    IN  code \in ARABIC_RANGE \/ code \in ARABIC_SUPPLEMENT \/ code \in ARABIC_EXTENDED_A

contains_arabic(text) == \E i \in 1..Len(text) : is_arabic_char(text[i])

\* Canonical composition of a base letter with the combining dot below.
NFC_COMPOSE ==
    [c \in {"k", "s", "a"} |->
        CASE c = "k" -> "KDOT"
          [] c = "s" -> "SDOT"
          [] c = "a" -> "ADOT"]

\* unicodedata.normalize("NFC", text): DOT and MB are the only combining
\* marks of the alphabet and have the same combining class, so no mark is
\* reordered, and a DOT combines with the character right before it.
RECURSIVE NfcFrom(_, _, _)
NfcFrom(text, i, out) ==
    IF i > Len(text) THEN out
    ELSE IF text[i] = "DOT" /\ Len(out) > 0 /\ out[Len(out)] \in DOMAIN NFC_COMPOSE
         THEN NfcFrom(text, i + 1,
                      [out EXCEPT ![Len(out)] = NFC_COMPOSE[out[Len(out)]]])
         ELSE NfcFrom(text, i + 1, Append(out, text[i]))

normalize_diacritics(text) == NfcFrom(text, 1, <<>>)

----------------------------------------------------------------------------
(* transliterator.py: TransliterationMapping *)
(* Offsets are 0-based as in the source; text[i] of the source is          *)
(* text[i + 1] here.                                                       *)

TransliterationMapping(original, transliterated, char_mappings, ambiguous_chars) ==
    [original |-> original, transliterated |-> transliterated,
     char_mappings |-> char_mappings, ambiguous_chars |-> ambiguous_chars]

RECURSIVE OriginalOffsetFrom(_, _, _)
OriginalOffsetFrom(cm, pos, j) ==
    IF j > Len(cm) THEN -1
    ELSE IF cm[j][3] <= pos /\ pos < cm[j][4] THEN cm[j][1]
    ELSE IF cm[j][3] > pos THEN -1
    ELSE OriginalOffsetFrom(cm, pos, j + 1)

get_original_offset(m, transliterated_pos) ==
    OriginalOffsetFrom(m.char_mappings, transliterated_pos, 1)

RECURSIVE TransliteratedOffsetFrom(_, _, _)
TransliteratedOffsetFrom(cm, pos, j) ==
    IF j > Len(cm) THEN -1
    ELSE IF cm[j][1] <= pos /\ pos < cm[j][2] THEN cm[j][3]
    ELSE IF cm[j][1] > pos THEN -1
    ELSE TransliteratedOffsetFrom(cm, pos, j + 1)

get_transliterated_offset(m, original_pos) ==
    TransliteratedOffsetFrom(m.char_mappings, original_pos, 1)

\* The loop of lines 108-111: the orig_end of the first span whose
\* transliterated range contains pos.
RECURSIVE TokenEnd(_, _, _, _)
TokenEnd(cm, pos, j, orig_end) ==
    IF j > Len(cm) THEN orig_end
    ELSE IF cm[j][3] <= pos /\ pos < cm[j][4] THEN cm[j][2]
    ELSE TokenEnd(cm, pos, j + 1, orig_end)

get_token_offsets(m, token_start, token_end) ==
    LET orig_start == get_original_offset(m, token_start)
        found_end == get_original_offset(m, token_end - 1)
        orig_end == IF found_end >= 0
                    THEN TokenEnd(m.char_mappings, token_end - 1, 1, found_end)
                    ELSE found_end
    IN  <<orig_start, orig_end>>

----------------------------------------------------------------------------
(* transliterator.py: OttomanTransliterator *)

\* get_base of _apply_context_rules: the first character, None if empty.
get_base(latin) == IF latin = <<>> THEN NONE ELSE latin[1]

ArabicToLatinGet(c) == IF c \in DOMAIN ARABIC_TO_LATIN THEN ARABIC_TO_LATIN[c] ELSE <<c>>

\* Mutation of RuleScan: the last matching rule wins.
RECURSIVE RuleScan_LastWins(_, _, _, _, _, _)
RuleScan_LastWins(r, prev_char, prev_base, char, next_char, next_base) ==
    IF r > Len(CONTEXT_RULES) THEN <<>>
    ELSE LET rule_prev == CONTEXT_RULES[r][1]
             rule_char == CONTEXT_RULES[r][2]
             rule_next == CONTEXT_RULES[r][3]
             rule_result == CONTEXT_RULES[r][4]
             skip ==
                \/ rule_char # char
                \/ /\ rule_prev # NONE
                   /\ \/ rule_prev = "SP" /\ prev_char # "SP"
                      \/ prev_base # rule_prev /\ prev_char # rule_prev
                \/ /\ rule_next # NONE
                   /\ next_base # rule_next /\ next_char # rule_next
             later == RuleScan_LastWins(r + 1, prev_char, prev_base, char, next_char,
                                        next_base)
         IN  IF later # <<>> THEN later
             ELSE IF skip THEN <<>>
             ELSE <<rule_result>>

RECURSIVE RuleScan(_, _, _, _, _, _)
RuleScan(r, prev_char, prev_base, char, next_char, next_base) ==
    IF r > Len(CONTEXT_RULES) THEN <<>>
    ELSE LET rule_prev == CONTEXT_RULES[r][1]
             rule_char == CONTEXT_RULES[r][2]
             rule_next == CONTEXT_RULES[r][3]
             rule_result == CONTEXT_RULES[r][4]
             skip ==
                \/ rule_char # char
                \/ /\ rule_prev # NONE
                   /\ \/ rule_prev = "SP" /\ prev_char # "SP"
                      \/ prev_base # rule_prev /\ prev_char # rule_prev
                \/ /\ rule_next # NONE
                   /\ next_base # rule_next /\ next_char # rule_next
         IN  IF skip
             THEN RuleScan(r + 1, prev_char, prev_base, char, next_char, next_base)
             ELSE <<rule_result>>

\* Returns <<result>> for the first matching rule and <<>> for Python's None;
\* prev_latin and next_latin are <<>> for None, which get_base treats as "".
apply_context_rules(prev_char, char, next_char) ==
    IF ~use_context_rules THEN <<>>
    ELSE LET prev_latin == IF prev_char # NONE THEN ArabicToLatinGet(prev_char) ELSE <<>>
             next_latin == IF next_char # NONE THEN ArabicToLatinGet(next_char) ELSE <<>>
         IN  RuleScan(1, prev_char, get_base(prev_latin), char, next_char, get_base(next_latin))

\* The text emitted for text[i] (0-based i) by the loop body of arabic_to_latin.
ArabicLatinChar(text, i) ==
    LET char == text[i + 1]
    IN  IF is_arabic_char(char)
        THEN LET prev_char == IF i > 0 THEN text[i] ELSE NONE
                 next_char == IF i < Len(text) - 1 THEN text[i + 2] ELSE NONE
                 latin_char == apply_context_rules(prev_char, char, next_char)
             IN  IF latin_char = <<>> THEN ArabicToLatinGet(char) ELSE latin_char[1]
        ELSE <<char>>

\* Mutation of ArabicToLatinLoop: trans_start is taken to be the source index.
RECURSIVE ArabicToLatinLoop_SourceIndex(_, _, _, _, _)
ArabicToLatinLoop_SourceIndex(text, i, transliterated_chars, mappings, ambiguous) ==
    IF ~(i < Len(text))
    THEN TransliterationMapping(text, transliterated_chars, mappings, ambiguous)
    ELSE LET char == text[i + 1]
             latin_char == ArabicLatinChar(text, i)
             joined == transliterated_chars \o latin_char
         IN  ArabicToLatinLoop_SourceIndex(text, i + 1, joined,
                 Append(mappings, <<i, i + 1, i, i + Len(latin_char)>>),
                 IF is_arabic_char(char) /\ char \in AMBIGUOUS_MAPPINGS
                 THEN Append(ambiguous, <<i, char, latin_char>>)
                 ELSE ambiguous)

RECURSIVE ArabicToLatinLoop(_, _, _, _, _)
ArabicToLatinLoop(text, i, transliterated_chars, mappings, ambiguous) ==
    IF ~(i < Len(text))
    THEN TransliterationMapping(text, transliterated_chars, mappings, ambiguous)
    ELSE LET char == text[i + 1]
             latin_char == ArabicLatinChar(text, i)
             trans_start == Len(transliterated_chars)
             joined == transliterated_chars \o latin_char
             trans_end == Len(joined)
         IN  ArabicToLatinLoop(text, i + 1, joined,
                 Append(mappings, <<i, i + 1, trans_start, trans_end>>),
                 IF is_arabic_char(char) /\ char \in AMBIGUOUS_MAPPINGS
                 THEN Append(ambiguous, <<i, char, latin_char>>)
                 ELSE ambiguous)

\* Mutation of arabic_to_latin: the ambiguity records are not handed to the
\* mapping.
arabic_to_latin_DropsAmbiguous(text) ==
    LET mapping == ArabicToLatinLoop(normalize_diacritics(text), 0, <<>>, <<>>, <<>>)
    IN  TransliterationMapping(mapping.original, mapping.transliterated,
                               mapping.char_mappings, <<>>)

arabic_to_latin(text) ==
    ArabicToLatinLoop(normalize_diacritics(text), 0, <<>>, <<>>, <<>>)

\* Mutation of ModernChar: a character without a table entry is dropped.
ModernChar_DropsUnmapped(char) ==
    IF char \in DOMAIN SCHOLARLY_TO_MODERN
    THEN LET modern == SCHOLARLY_TO_MODERN[char]
         IN  IF preserve_diacritics /\ modern = <<>> THEN <<char>> ELSE modern
    ELSE <<>>

\* The Modern text emitted for one character by scholarly_to_modern.
ModernChar(char) ==
    IF char \in DOMAIN SCHOLARLY_TO_MODERN
    THEN LET modern == SCHOLARLY_TO_MODERN[char]
         IN  IF preserve_diacritics /\ modern = <<>> THEN <<char>> ELSE modern
    ELSE <<char>>

\* Mutation of ScholarlyToModernLoop: every span is taken to be one
\* character wide on the Modern side.
RECURSIVE ScholarlyToModernLoop_UnitWidth(_, _, _, _)
ScholarlyToModernLoop_UnitWidth(text, i, result_chars, mappings) ==
    IF ~(i < Len(text))
    THEN TransliterationMapping(text, result_chars, mappings, <<>>)
    ELSE LET modern == ModernChar(text[i + 1])
             trans_start == Len(result_chars)
         IN  ScholarlyToModernLoop_UnitWidth(text, i + 1, result_chars \o modern,
                 Append(mappings, <<i, i + 1, trans_start, trans_start + 1>>))

RECURSIVE ScholarlyToModernLoop(_, _, _, _)
ScholarlyToModernLoop(text, i, result_chars, mappings) ==
    IF ~(i < Len(text))
    THEN TransliterationMapping(text, result_chars, mappings, <<>>)
    ELSE LET modern == ModernChar(text[i + 1])
             trans_start == Len(result_chars)
             joined == result_chars \o modern
             trans_end == Len(joined)
         IN  ScholarlyToModernLoop(text, i + 1, joined,
                 Append(mappings, <<i, i + 1, trans_start, trans_end>>))

scholarly_to_modern(text) ==
    ScholarlyToModernLoop(normalize_diacritics(text), 0, <<>>, <<>>)

\* The inner loop of arabic_to_modern: the trans_end of the second-stage
\* span that starts at scholarly index schol_end - 1.
RECURSIVE ActualEnd(_, _, _, _)
ActualEnd(cm, last, j, modern_end) ==
    IF j > Len(cm) THEN modern_end
    ELSE IF cm[j][1] = last THEN cm[j][4]
    ELSE ActualEnd(cm, last, j + 1, modern_end)

RECURSIVE CombineLoop(_, _, _, _)
CombineLoop(scholarly_mapping, modern_mapping, j, combined_mappings) ==
    IF j > Len(scholarly_mapping.char_mappings) THEN combined_mappings
    ELSE LET span == scholarly_mapping.char_mappings[j]
             orig_start == span[1]
             orig_end == span[2]
             schol_start == span[3]
             schol_end == span[4]
             modern_start == get_transliterated_offset(modern_mapping, schol_start)
             found_end == get_transliterated_offset(modern_mapping, schol_end - 1)
             modern_end == IF found_end >= 0
                           THEN ActualEnd(modern_mapping.char_mappings, schol_end - 1, 1, found_end)
                           ELSE found_end
         IN  CombineLoop(scholarly_mapping, modern_mapping, j + 1,
                 IF modern_start >= 0
                 THEN Append(combined_mappings, <<orig_start, orig_end, modern_start, modern_end>>)
                 ELSE combined_mappings)

\* Mutation of arabic_to_modern: the scholarly text of the first stage is
\* returned as the transliterated text.
arabic_to_modern_ScholarlyText(text) ==
    LET scholarly_mapping == arabic_to_latin(text)
        modern_mapping == scholarly_to_modern(scholarly_mapping.transliterated)
    IN  TransliterationMapping(text, scholarly_mapping.transliterated,
            CombineLoop(scholarly_mapping, modern_mapping, 1, <<>>),
            scholarly_mapping.ambiguous_chars)

arabic_to_modern(text) ==
    LET scholarly_mapping == arabic_to_latin(text)
        modern_mapping == scholarly_to_modern(scholarly_mapping.transliterated)
    IN  TransliterationMapping(text, modern_mapping.transliterated,
            CombineLoop(scholarly_mapping, modern_mapping, 1, <<>>),
            scholarly_mapping.ambiguous_chars)

\* OttomanTransliterator.auto_transliterate
transliterate_auto(text) ==
    LET normalized == normalize_diacritics(text)
    IN  IF contains_arabic(normalized) THEN arabic_to_modern(normalized)
        ELSE scholarly_to_modern(normalized)

----------------------------------------------------------------------------
(* One call of a transliterator method per step. *)

EmptyMapping == TransliterationMapping(<<>>, <<>>, <<>>, <<>>)

EmptyResult ==
    [tokens |-> <<>>, original_tokens |-> <<>>, offset_mappings |-> <<>>,
     script_types |-> <<>>, token_count |-> 0,
     language_variant |-> "none", auto_transliterated |-> FALSE]

\* A value of OttomanConfig.custom_stopwords or custom_suffixes: None, a
\* collection given inline, or a path, which stands here for the state of
\* the file it names.
NoValue == [kind |-> "none", value |-> <<>>]

Inline(collection) == [kind |-> "inline", value |-> collection]

PathTo(file) == [kind |-> "path", value |-> file]

\* The fields of OttomanConfig that process() does not read, of a processor
\* that was constructed without the default stopwords from collections given
\* inline; no call has raised and no other processor was used before.
ConstructedInline ==
    /\ language_variant = "ottoman"
    /\ lowercase = FALSE
    /\ use_durak_stopwords = FALSE
    /\ custom_stopwords = Inline(stopwords)
    /\ custom_suffixes = Inline(suffixes)
    /\ raised = <<>>
    /\ previous = <<>>

\* The locals of process() before a call.
ProcessIdle ==
    /\ input_type = "none"
    /\ cleaned = <<>>
    /\ script_type = "none"
    /\ full_mapping = <<>>
    /\ tokens = <<>>
    /\ search_start = 0
    /\ trans_idx = 0
    /\ processed_tokens = <<>>
    /\ original_tokens_result = <<>>
    /\ offset_mappings = <<>>
    /\ script_types = <<>>
    /\ result = EmptyResult

\* No batch is being processed.
BatchIdle ==
    /\ texts = <<>>
    /\ results = <<>>

\* A transliterator of its own, constructed with any flags; the processor
\* fields keep the defaults of OttomanConfig.
Init ==
    /\ use_context_rules \in BOOLEAN
    /\ preserve_diacritics \in BOOLEAN
    /\ pc = "idle"
    /\ op = "none"
    /\ arg = <<>>
    /\ ret = EmptyMapping
    /\ auto_transliterate = TRUE
    /\ preserve_original = TRUE
    /\ stopwords = {}
    /\ suffixes = <<>>
    /\ ConstructedInline
    /\ ProcessIdle
    /\ BatchIdle

CallScholarlyToModern ==
    /\ pc = "idle"
    /\ \E text \in Texts :
        /\ op' = "scholarly_to_modern"
        /\ arg' = text
        /\ ret' = scholarly_to_modern(text)
    /\ pc' = "returned"
    /\ UNCHANGED <<use_context_rules, preserve_diacritics, cvars, pvars, bvars, xvars>>

CallArabicToLatin ==
    /\ pc = "idle"
    /\ \E text \in Texts :
        /\ op' = "arabic_to_latin"
        /\ arg' = text
        /\ ret' = arabic_to_latin(text)
    /\ pc' = "returned"
    /\ UNCHANGED <<use_context_rules, preserve_diacritics, cvars, pvars, bvars, xvars>>

CallArabicToModern ==
    /\ pc = "idle"
    /\ \E text \in Texts :
        /\ op' = "arabic_to_modern"
        /\ arg' = text
        /\ ret' = arabic_to_modern(text)
    /\ pc' = "returned"
    /\ UNCHANGED <<use_context_rules, preserve_diacritics, cvars, pvars, bvars, xvars>>

\* The caller drops the result; the transliterator is ready for the next call.
Return ==
    /\ pc = "returned"
    /\ pc' = "idle"
    /\ op' = "none"
    /\ arg' = <<>>
    /\ ret' = EmptyMapping
    /\ UNCHANGED <<use_context_rules, preserve_diacritics, cvars, pvars, bvars, xvars>>

CallAutoTransliterate ==
    /\ pc = "idle"
    /\ \E text \in Texts :
        /\ op' = "auto_transliterate"
        /\ arg' = text
        /\ ret' = transliterate_auto(text)
    /\ pc' = "returned"
    /\ UNCHANGED <<use_context_rules, preserve_diacritics, cvars, pvars, bvars, xvars>>

Next ==
    \/ CallScholarlyToModern
    \/ CallArabicToLatin
    \/ CallArabicToModern
    \/ CallAutoTransliterate
    \/ Return

Spec == Init /\ [][Next]_vars

----------------------------------------------------------------------------
(* char_maps.py: one call of a script detection predicate per step *)

\* The first and the last character of each of the three blocks, the
\* characters next to them outside the blocks, a letter inside a block and a
\* Latin letter.
DetectChars ==
    {"U05FF", "U0600", "U06FF", "U0700", "U074F", "U0750", "U077F", "U0780",
     "U089F", "U08A0", "U08FF", "U0900", "QAF", "k"}

\* The strings given to is_arabic_char: the empty string and one character.
DetectStrings == {<<>>} \cup {<<c>> : c \in DetectChars}

DetectTexts == SeqsUpTo(DetectChars, MaxLen - 1)

\* is_arabic_char on a string of at most one character; lines 222-223 return
\* False for the empty string.
is_arabic_char_call(string) ==
    IF string = <<>> THEN FALSE ELSE is_arabic_char(string[1])

CallIsArabicChar ==
    /\ pc = "idle"
    /\ \E string \in DetectStrings :
        /\ op' = "is_arabic_char"
        /\ arg' = string
        /\ ret' = is_arabic_char_call(string)
    /\ pc' = "returned"
    /\ UNCHANGED <<use_context_rules, preserve_diacritics, cvars, pvars, bvars, xvars>>

CallContainsArabic ==
    /\ pc = "idle"
    /\ \E text \in DetectTexts :
        /\ op' = "contains_arabic"
        /\ arg' = text
        /\ ret' = contains_arabic(text)
    /\ pc' = "returned"
    /\ UNCHANGED <<use_context_rules, preserve_diacritics, cvars, pvars, bvars, xvars>>

DetectNext ==
    \/ CallIsArabicChar
    \/ CallContainsArabic
    \/ Return

DetectSpec == Init /\ [][DetectNext]_vars

----------------------------------------------------------------------------
(* cleaning.py, on the characters of the alphabet: none is an emoji, a tag, *)
(* a URL, a mention, punctuation or one of the replaced Unicode variants.   *)

\* str.lower(): K is the only cased letter of the alphabet that has an
\* upper-case form in it.
Lower(text) == [i \in 1..Len(text) |-> IF text[i] = "K" THEN "k" ELSE text[i]]

normalize_unicode(text) == normalize_diacritics(text)

RECURSIVE CollapseFrom(_, _, _)
CollapseFrom(text, i, out) ==
    IF i > Len(text) THEN out
    ELSE IF text[i] = "SP" /\ (out = <<>> \/ out[Len(out)] = "SP")
         THEN CollapseFrom(text, i + 1, out)
         ELSE CollapseFrom(text, i + 1, Append(out, text[i]))

\* WHITESPACE_PATTERN.sub(" ", text).strip()
collapse_whitespace(text) ==
    LET collapsed == CollapseFrom(text, 1, <<>>)
    IN  IF collapsed # <<>> /\ collapsed[Len(collapsed)] = "SP"
        THEN SubSeq(collapsed, 1, Len(collapsed) - 1)
        ELSE collapsed

normalize_case(text) == Lower(text)

\* (.)\1{2,} is replaced by two copies of the character.
RECURSIVE RepeatedFrom(_, _, _)
RepeatedFrom(text, i, out) ==
    IF i > Len(text) THEN out
    ELSE IF Len(out) >= 2 /\ out[Len(out)] = text[i] /\ out[Len(out) - 1] = text[i]
         THEN RepeatedFrom(text, i + 1, out)
         ELSE RepeatedFrom(text, i + 1, Append(out, text[i]))

remove_repeated_chars(text) == RepeatedFrom(text, 1, <<>>)

\* clean_text(text, emoji_mode) with DEFAULT_CLEANING_STEPS: normalize_unicode,
\* strip_html, remove_urls, normalize_case, remove_mentions_hashtags,
\* remove_repeated_chars, collapse_whitespace, then remove_emojis.
clean_text(text) ==
    IF text = <<>> THEN <<>>
    ELSE LET unicode == normalize_unicode(text)
             html == collapse_whitespace(unicode)
             urls == collapse_whitespace(html)
             lowered == normalize_case(urls)
             mentions == collapse_whitespace(lowered)
             repeated == remove_repeated_chars(mentions)
             collapsed == collapse_whitespace(repeated)
         IN  collapse_whitespace(collapsed)

----------------------------------------------------------------------------
(* The tokenizer (durak.tokenizer.tokenize) *)

RECURSIVE SplitFrom(_, _, _, _)
SplitFrom(text, i, word, out) ==
    IF i > Len(text) THEN (IF word = <<>> THEN out ELSE Append(out, word))
    ELSE IF text[i] = "SP"
         THEN SplitFrom(text, i + 1, <<>>, IF word = <<>> THEN out ELSE Append(out, word))
         ELSE SplitFrom(text, i + 1, Append(word, text[i]), out)

\* The words of the text, in order.
tokenize(text) == SplitFrom(text, 1, <<>>, <<>>)

Upper(text) == [i \in 1..Len(text) |-> IF text[i] = "k" THEN "K" ELSE text[i]]

\* The forms in which the tokenizer may hand a word to process(): the word,
\* the word in another case, or a normalized form that need not occur in the
\* text; process() searches case-insensitively and provides for a token it
\* does not find.
TokenForms(word) == {word, Upper(word), <<"s">>}

RECURSIVE FormsFrom(_, _, _)
FormsFrom(words, j, out) ==
    IF j > Len(words) THEN {out}
    ELSE UNION {FormsFrom(words, j + 1, Append(out, form)) : form \in TokenForms(words[j])}

TokenizerOutputs(text) == FormsFrom(tokenize(text), 1, <<>>)

\* The tokenizer as a function of the text: it returns its words.
WordOutputs(text) == {tokenize(text)}

----------------------------------------------------------------------------
(* processor.py: OttomanProcessor *)

contains_scholarly_latin(text) ==
    \E i \in 1..Len(text) : text[i] \in SCHOLARLY_DIACRITIC_CHARS

\* Mutation of Find: the search starts at the beginning of the text instead
\* of at the cursor.
RECURSIVE Find_Scan(_, _, _)
Find_Scan(haystack, needle, from) ==
    IF from + Len(needle) > Len(haystack) THEN -1
    ELSE IF SubSeq(haystack, from + 1, from + Len(needle)) = needle THEN from
    ELSE Find_Scan(haystack, needle, from + 1)

Find_FromBeginning(haystack, needle, start) == Find_Scan(haystack, needle, 0)

\* haystack.find(needle, start) for 0 <= start
RECURSIVE Find(_, _, _)
Find(haystack, needle, start) ==
    IF start + Len(needle) > Len(haystack) THEN -1
    ELSE IF SubSeq(haystack, start + 1, start + Len(needle)) = needle THEN start
    ELSE Find(haystack, needle, start + 1)

\* text[from:to] for 0 <= from
Slice(text, from, to) ==
    SubSeq(text, from + 1, IF to < Len(text) THEN to ELSE Len(text))

\* Mutation of SpanEnd: the start of the span is taken for its end.
RECURSIVE SpanEnd_SpanStart(_, _, _, _)
SpanEnd_SpanStart(cm, pos, j, orig_end) ==
    IF j > Len(cm) THEN orig_end
    ELSE IF cm[j][3] <= pos /\ pos < cm[j][4] THEN cm[j][1]
    ELSE SpanEnd_SpanStart(cm, pos, j + 1, orig_end)

\* Lines 322-325: the orig_end of the first span whose transliterated range
\* contains pos.
RECURSIVE SpanEnd(_, _, _, _)
SpanEnd(cm, pos, j, orig_end) ==
    IF j > Len(cm) THEN orig_end
    ELSE IF cm[j][3] <= pos /\ pos < cm[j][4] THEN cm[j][2]
    ELSE SpanEnd(cm, pos, j + 1, orig_end)

text_for_tokenization ==
    IF full_mapping = <<>> THEN cleaned ELSE full_mapping[1].transliterated

\* Mutation of DetectScript: the scholarly diacritics are looked for first.
DetectScript_ScholarlyFirst(text) ==
    IF contains_scholarly_latin(text) THEN "scholarly_latin"
    ELSE IF contains_arabic(text) THEN "arabic"
    ELSE "modern_latin"

\* Lines 263-269.
DetectScript(text) ==
    IF contains_arabic(text) THEN "arabic"
    ELSE IF contains_scholarly_latin(text) THEN "scholarly_latin"
    ELSE "modern_latin"

FullMapping(script, text) ==
    IF script = "arabic" THEN <<arabic_to_modern(text)>>
    ELSE IF script = "scholarly_latin" THEN <<scholarly_to_modern(text)>>
    ELSE <<>>

\* Steps 1 to 5 of process(text): normalize, clean, detect the script,
\* transliterate the whole text, tokenize; the tokenizer returns the words
\* of the text, in any of their forms if any_form is set.
StartProcess(text, any_form) ==
    /\ LET normalized == normalize_diacritics(text)
           cleaned_result == clean_text(normalized)
           script == DetectScript(cleaned_result)
           mapping == FullMapping(script, cleaned_result)
           for_tokenization == IF mapping = <<>> THEN cleaned_result
                               ELSE mapping[1].transliterated
       IN  /\ cleaned' = cleaned_result
           /\ script_type' = script
           /\ full_mapping' = mapping
           /\ tokens' \in (IF any_form THEN TokenizerOutputs(for_tokenization)
                          ELSE WordOutputs(for_tokenization))
    /\ processed_tokens' = <<>>
    /\ original_tokens_result' = (IF preserve_original THEN << <<>> >> ELSE <<>>)
    /\ offset_mappings' = <<>>
    /\ script_types' = <<>>
    /\ search_start' = 0
    /\ trans_idx' = 0
    /\ pc' = "reconcile"
    /\ UNCHANGED <<tvars, cvars, result, xvars>>

\* A value of a Python type: a string, or a value of another type given by
\* the name of its type and, for bytes and lists, the characters it holds.
Value(type, value) == [type |-> type, value |-> value]

\* A number, None, bytes and a list.
NonTexts ==
    {Value("int", <<>>), Value("NoneType", <<>>), Value("bytes", <<"k">>),
     Value("list", <<"k">>)}

\* The values a caller passes to process().
ProcessInputs == {Value("str", text) : text \in ProcessTexts} \cup NonTexts

\* Mutation of isinstance_str: bytes are taken for text.
isinstance_str_OrBytes(x) == x.type \in {"str", "bytes"}

\* isinstance(text, str)
isinstance_str(x) == x.type = "str"

ConfigurationError(about) == [type |-> "ConfigurationError", about |-> about]

\* A call of process() on any value: lines 247-248, then steps 1 to 5.
ProcessStart ==
    /\ pc = "idle"
    /\ \E x \in ProcessInputs :
        /\ input_type' = x.type
        /\ IF isinstance_str(x)
           THEN StartProcess(x.value, TRUE)
           ELSE /\ raised' = <<ConfigurationError(x.type)>>
                /\ pc' = "rejected"
                /\ UNCHANGED <<tvars, cvars, lvars, previous>>
    /\ UNCHANGED bvars

\* The caller has the exception; the processor is ready for the next call.
ProcessCaught ==
    /\ pc = "rejected"
    /\ pc' = "idle"
    /\ raised' = <<>>
    /\ input_type' = "none"
    /\ UNCHANGED <<tvars, cvars, lvars, bvars, previous>>

\* Mutation of OutputToken: the "modern" variant puts out the Modern token
\* whatever auto_transliterate says.
OutputToken_ModernVariant(token, original_token) ==
    IF auto_transliterate \/ language_variant = "modern" THEN token ELSE original_token

\* Lines 333-336: the output token.
OutputToken(token, original_token) ==
    IF auto_transliterate THEN token ELSE original_token

AppendOriginal(original_token) ==
    IF original_tokens_result = <<>> THEN <<>>
    ELSE <<Append(original_tokens_result[1], original_token)>>

\* One iteration of the loop of lines 305-352.
ReconcileToken ==
    /\ pc = "reconcile"
    /\ full_mapping # <<>>
    /\ Len(processed_tokens) < Len(tokens)
    /\ LET token == tokens[Len(processed_tokens) + 1]
           trans_text == text_for_tokenization
           found == Find(Lower(trans_text), Lower(token), search_start)
           idx == IF found = -1 THEN search_start ELSE found
           orig_start == get_original_offset(full_mapping[1], idx)
           orig_end_pos == idx + Len(token) - 1
           end_offset == get_original_offset(full_mapping[1], orig_end_pos)
           orig_end == IF end_offset >= 0
                       THEN SpanEnd(full_mapping[1].char_mappings, orig_end_pos, 1, end_offset)
                       ELSE end_offset
           original_token == IF orig_start >= 0 /\ orig_end >= orig_start
                             THEN Slice(cleaned, orig_start, orig_end)
                             ELSE token
           output_token == OutputToken(token, original_token)
           token_mapping == TransliterationMapping(original_token, token,
                                << <<0, Len(original_token), 0, Len(token)>> >>, <<>>)
       IN  /\ trans_idx' = idx
           /\ processed_tokens' = Append(processed_tokens, output_token)
           /\ original_tokens_result' = AppendOriginal(original_token)
           /\ offset_mappings' = Append(offset_mappings, token_mapping)
           /\ script_types' = Append(script_types, script_type)
           /\ search_start' = idx + Len(token)
    /\ UNCHANGED <<pc, tvars, cvars, bvars, xvars, input_type, cleaned, script_type, full_mapping, tokens,
                   result>>

\* One iteration of the loop of lines 355-364 (Modern Latin, no mapping).
CopyToken ==
    /\ pc = "reconcile"
    /\ full_mapping = <<>>
    /\ Len(processed_tokens) < Len(tokens)
    /\ LET token == tokens[Len(processed_tokens) + 1]
       IN  /\ processed_tokens' = Append(processed_tokens, token)
           /\ original_tokens_result' = AppendOriginal(token)
           /\ offset_mappings' = Append(offset_mappings,
                  TransliterationMapping(token, token,
                      << <<0, Len(token), 0, Len(token)>> >>, <<>>))
           /\ script_types' = Append(script_types, script_type)
    /\ UNCHANGED <<pc, tvars, cvars, bvars, xvars, input_type, cleaned, script_type, full_mapping, tokens,
                   search_start, trans_idx, result>>

RECURSIVE FilteredIndices(_, _, _)
FilteredIndices(toks, i, out) ==
    IF i > Len(toks) THEN out
    ELSE FilteredIndices(toks, i + 1,
             IF Lower(toks[i]) \notin stopwords THEN Append(out, i) ELSE out)

Select(list, indices) == [j \in 1..Len(indices) |-> list[indices[j]]]

\* Mutation of Finish: token_count counts the tokens before the filter.
Finish_CountsAllTokens ==
    /\ pc = "reconcile"
    /\ Len(processed_tokens) = Len(tokens)
    /\ LET filtered_indices == FilteredIndices(processed_tokens, 1, <<>>)
           kept == IF stopwords # {} THEN filtered_indices
                   ELSE [i \in 1..Len(processed_tokens) |-> i]
           final_tokens == Select(processed_tokens, kept)
       IN  result' = [tokens |-> final_tokens,
                      original_tokens |-> IF original_tokens_result = <<>> THEN <<>>
                                          ELSE <<Select(original_tokens_result[1], kept)>>,
                      offset_mappings |-> Select(offset_mappings, kept),
                      script_types |-> Select(script_types, kept),
                      token_count |-> Len(processed_tokens),
                      language_variant |-> language_variant,
                      auto_transliterated |-> auto_transliterate]
    /\ pc' = "done"
    /\ UNCHANGED <<tvars, cvars, bvars, xvars, input_type, cleaned, script_type, full_mapping, tokens,
                   search_start, trans_idx, processed_tokens,
                   original_tokens_result, offset_mappings, script_types>>

\* Mutation of Finish: the script types are not filtered with the tokens.
Finish_UnfilteredScriptTypes ==
    /\ pc = "reconcile"
    /\ Len(processed_tokens) = Len(tokens)
    /\ LET filtered_indices == FilteredIndices(processed_tokens, 1, <<>>)
           kept == IF stopwords # {} THEN filtered_indices
                   ELSE [i \in 1..Len(processed_tokens) |-> i]
           final_tokens == Select(processed_tokens, kept)
       IN  result' = [tokens |-> final_tokens,
                      original_tokens |-> IF original_tokens_result = <<>> THEN <<>>
                                          ELSE <<Select(original_tokens_result[1], kept)>>,
                      offset_mappings |-> Select(offset_mappings, kept),
                      script_types |-> script_types,
                      token_count |-> Len(final_tokens),
                      language_variant |-> language_variant,
                      auto_transliterated |-> auto_transliterate]
    /\ pc' = "done"
    /\ UNCHANGED <<tvars, cvars, bvars, xvars, input_type, cleaned, script_type, full_mapping, tokens,
                   search_start, trans_idx, processed_tokens,
                   original_tokens_result, offset_mappings, script_types>>

\* Mutation of Finish: the processor adds the tokens it put out to its
\* stopword set.
Finish_UpdatesStopwords ==
    /\ pc = "reconcile"
    /\ Len(processed_tokens) = Len(tokens)
    /\ LET filtered_indices == FilteredIndices(processed_tokens, 1, <<>>)
           kept == IF stopwords # {} THEN filtered_indices
                   ELSE [i \in 1..Len(processed_tokens) |-> i]
           final_tokens == Select(processed_tokens, kept)
       IN  /\ result' = [tokens |-> final_tokens,
                         original_tokens |-> IF original_tokens_result = <<>> THEN <<>>
                                             ELSE <<Select(original_tokens_result[1], kept)>>,
                         offset_mappings |-> Select(offset_mappings, kept),
                         script_types |-> Select(script_types, kept),
                         token_count |-> Len(final_tokens),
                         language_variant |-> language_variant,
                         auto_transliterated |-> auto_transliterate]
           /\ stopwords' = stopwords \cup {Lower(final_tokens[i]) : i \in 1..Len(final_tokens)}
    /\ pc' = "done"
    /\ UNCHANGED <<tvars, auto_transliterate, preserve_original, suffixes, kvars, bvars,
                   xvars, input_type,
                   cleaned, script_type, full_mapping, tokens,
                   search_start, trans_idx, processed_tokens,
                   original_tokens_result, offset_mappings, script_types>>

\* Lines 366-391: stopword removal and the result.
Finish ==
    /\ pc = "reconcile"
    /\ Len(processed_tokens) = Len(tokens)
    /\ LET filtered_indices == FilteredIndices(processed_tokens, 1, <<>>)
           kept == IF stopwords # {} THEN filtered_indices
                   ELSE [i \in 1..Len(processed_tokens) |-> i]
           final_tokens == Select(processed_tokens, kept)
       IN  result' = [tokens |-> final_tokens,
                      original_tokens |-> IF original_tokens_result = <<>> THEN <<>>
                                          ELSE <<Select(original_tokens_result[1], kept)>>,
                      offset_mappings |-> Select(offset_mappings, kept),
                      script_types |-> Select(script_types, kept),
                      token_count |-> Len(final_tokens),
                      language_variant |-> language_variant,
                      auto_transliterated |-> auto_transliterate]
    /\ pc' = "done"
    /\ UNCHANGED <<tvars, cvars, bvars, xvars, input_type, cleaned, script_type, full_mapping, tokens,
                   search_start, trans_idx, processed_tokens,
                   original_tokens_result, offset_mappings, script_types>>

\* The caller has the result; the processor is ready for the next call.
ProcessReturn ==
    /\ pc = "done"
    /\ pc' = "idle"
    /\ cleaned' = <<>>
    /\ script_type' = "none"
    /\ full_mapping' = <<>>
    /\ tokens' = <<>>
    /\ search_start' = 0
    /\ trans_idx' = 0
    /\ processed_tokens' = <<>>
    /\ original_tokens_result' = <<>>
    /\ offset_mappings' = <<>>
    /\ script_types' = <<>>
    /\ result' = EmptyResult
    /\ input_type' = "none"
    /\ UNCHANGED <<tvars, cvars, bvars, xvars>>

\* <<start, end>>, or <<>> for None.
get_offsets_for_token(res, token_index) ==
    IF 0 <= token_index /\ token_index < Len(res.offset_mappings)
    THEN LET mapping == res.offset_mappings[token_index + 1]
         IN  IF mapping.char_mappings # <<>>
             THEN <<mapping.char_mappings[1][1],
                    mapping.char_mappings[Len(mapping.char_mappings)][2]>>
             ELSE <<>>
    ELSE <<>>

\* A processor constructed from any configuration; its transliterator is
\* built with use_context_rules only (line 182).
ProcInit ==
    /\ use_context_rules \in BOOLEAN
    /\ preserve_diacritics = FALSE
    /\ pc = "idle"
    /\ op = "none"
    /\ arg = <<>>
    /\ ret = EmptyMapping
    /\ auto_transliterate \in BOOLEAN
    /\ preserve_original \in BOOLEAN
    /\ stopwords \in {{}, {<<"k">>}}
    /\ suffixes = <<>>
    /\ ConstructedInline
    /\ ProcessIdle
    /\ BatchIdle

ProcNext ==
    \/ ProcessStart
    \/ ProcessCaught
    \/ ReconcileToken
    \/ CopyToken
    \/ Finish
    \/ ProcessReturn

ProcSpec == ProcInit /\ [][ProcNext]_vars

----------------------------------------------------------------------------
(* processor.py: OttomanProcessor.process_batch *)

\* The texts a batch is made of.
BatchTexts == SeqsUpTo(ProcessChars, MaxLen - 1)

\* Texts processed between two calls on the same text.
OtherTexts == {<<"QAF">>, <<"k", "SP", "KDOT">>}

\* A text alone, twice, and twice with another text in between.
Batches ==
    {<<s>> : s \in BatchTexts}
        \cup {<<s, s>> : s \in BatchTexts}
        \cup {<<s, o, s>> : s \in BatchTexts, o \in OtherTexts}

\* process_batch(texts) is called.
ProcessBatch ==
    /\ pc = "idle"
    /\ texts' \in Batches
    /\ results' = <<>>
    /\ pc' = "batch"
    /\ UNCHANGED <<tvars, cvars, pvars, xvars>>

\* The comprehension calls process() on the next text.
BatchProcess ==
    /\ pc = "batch"
    /\ Len(results) < Len(texts)
    /\ StartProcess(texts[Len(results) + 1], FALSE)
    /\ input_type' = "str"
    /\ UNCHANGED bvars

\* process() returns and its result is appended to the list.
BatchCollect ==
    /\ pc = "done"
    /\ results' = Append(results, result)
    /\ pc' = "batch"
    /\ cleaned' = <<>>
    /\ script_type' = "none"
    /\ full_mapping' = <<>>
    /\ tokens' = <<>>
    /\ search_start' = 0
    /\ trans_idx' = 0
    /\ processed_tokens' = <<>>
    /\ original_tokens_result' = <<>>
    /\ offset_mappings' = <<>>
    /\ script_types' = <<>>
    /\ result' = EmptyResult
    /\ input_type' = "none"
    /\ UNCHANGED <<tvars, cvars, texts, xvars>>

\* process_batch() returns the list.
BatchReturn ==
    /\ pc = "batch"
    /\ Len(results) = Len(texts)
    /\ pc' = "idle"
    /\ texts' = <<>>
    /\ results' = <<>>
    /\ UNCHANGED <<tvars, cvars, pvars, xvars>>

BatchNext ==
    \/ ProcessBatch
    \/ BatchProcess
    \/ ReconcileToken
    \/ CopyToken
    \/ Finish
    \/ BatchCollect
    \/ BatchReturn

\* A processor constructed from any configuration, with or without custom
\* suffixes.
BatchInit ==
    /\ use_context_rules \in BOOLEAN
    /\ preserve_diacritics = FALSE
    /\ pc = "idle"
    /\ op = "none"
    /\ arg = <<>>
    /\ ret = EmptyMapping
    /\ auto_transliterate \in BOOLEAN
    /\ preserve_original \in BOOLEAN
    /\ stopwords \in {{}, {<<"k">>}}
    /\ suffixes \in {<<>>, << <<"k">> >>}
    /\ ConstructedInline
    /\ ProcessIdle
    /\ BatchIdle

BatchSpec == BatchInit /\ [][BatchNext]_vars

----------------------------------------------------------------------------
(* processor.py: OttomanConfig and OttomanProcessor.__init__ *)

\* Mutation of valid_variants: "mixed" is missing.
valid_variants_WithoutMixed == {"ottoman", "modern"}

\* Line 52.
valid_variants == {"ottoman", "modern", "mixed"}

\* The values a caller gives as language_variant (the field is declared str).
LanguageVariants == {"ottoman", "modern", "mixed", "invalid", "Ottoman", ""}

\* The states of the file a path names: no such file, a file or directory
\* that cannot be opened for reading, bytes that are not UTF-8, text that is
\* not JSON, and the JSON documents ["k"], {"stopwords": ["k"]},
\* {"suffixes": ["k"]} and 5.
FileStates ==
    {"missing", "unreadable", "not_utf8", "malformed_json", "json_list",
     "json_stopwords_object", "json_suffixes_object", "json_scalar"}

JsonData(kind, key) == [kind |-> kind, key |-> key, items |-> << <<"k">> >>]

\* open(path, 'r', encoding='utf-8') and json.load(f): the exception raised
\* ("" for none) and the data loaded.
json_load(path) ==
    CASE path = "missing"        -> [raises |-> "FileNotFoundError", data |-> JsonData("none", "")]
      [] path = "unreadable"     -> [raises |-> "PermissionError", data |-> JsonData("none", "")]
      [] path = "not_utf8"       -> [raises |-> "UnicodeDecodeError", data |-> JsonData("none", "")]
      [] path = "malformed_json" -> [raises |-> "JSONDecodeError", data |-> JsonData("none", "")]
      [] path = "json_list"      -> [raises |-> "", data |-> JsonData("list", "")]
      [] path = "json_stopwords_object" -> [raises |-> "", data |-> JsonData("object", "stopwords")]
      [] path = "json_suffixes_object"  -> [raises |-> "", data |-> JsonData("object", "suffixes")]
      [] OTHER                   -> [raises |-> "", data |-> JsonData("scalar", "")]

\* except (json.JSONDecodeError, IOError): IOError is OSError, the base of
\* FileNotFoundError and PermissionError; UnicodeDecodeError is a ValueError.
CaughtByLoader(exception) ==
    exception \in {"JSONDecodeError", "FileNotFoundError", "PermissionError"}

SetOf(list) == {list[i] : i \in 1..Len(list)}

\* The exception that escapes ("" for none) and the value returned.
load_stopwords(path) ==
    LET loaded == json_load(path)
    IN  IF loaded.raises # ""
        THEN IF CaughtByLoader(loaded.raises)
             THEN [raises |-> "ResourceError", value |-> {}]
             ELSE [raises |-> loaded.raises, value |-> {}]
        ELSE IF loaded.data.kind = "list"
             THEN [raises |-> "", value |-> SetOf(loaded.data.items)]
        ELSE IF loaded.data.kind = "object" /\ loaded.data.key = "stopwords"
             THEN [raises |-> "", value |-> SetOf(loaded.data.items)]
        ELSE [raises |-> "ResourceError", value |-> {}]

load_suffixes(path) ==
    LET loaded == json_load(path)
    IN  IF loaded.raises # ""
        THEN IF CaughtByLoader(loaded.raises)
             THEN [raises |-> "ResourceError", value |-> <<>>]
             ELSE [raises |-> loaded.raises, value |-> <<>>]
        ELSE IF loaded.data.kind = "list"
             THEN [raises |-> "", value |-> loaded.data.items]
        ELSE IF loaded.data.kind = "object" /\ loaded.data.key = "suffixes"
             THEN [raises |-> "", value |-> loaded.data.items]
        ELSE [raises |-> "ResourceError", value |-> <<>>]

\* Two of the words of _load_default_stopwords: "ki" and "o".
load_default_stopwords == {<<"k", "i">>, <<"o">>}

\* The values a caller gives as custom_stopwords and as custom_suffixes.
StopwordSources ==
    {NoValue, Inline({}), Inline({<<"k">>})} \cup {PathTo(file) : file \in FileStates}

SuffixSources ==
    {NoValue, Inline(<< <<"k">> >>)} \cup {PathTo(file) : file \in FileStates}

\* OttomanConfig(...): __post_init__ validates language_variant.
NewConfig ==
    /\ pc = "start"
    /\ \E variant \in LanguageVariants, stop \in StopwordSources, suff \in SuffixSources,
          auto, keep, lower, durak, rules \in BOOLEAN :
        IF variant \notin valid_variants
        THEN /\ raised' = <<ConfigurationError(variant)>>
             /\ pc' = "failed"
             /\ UNCHANGED <<use_context_rules, cvars>>
        ELSE /\ language_variant' = variant
             /\ auto_transliterate' = auto
             /\ preserve_original' = keep
             /\ lowercase' = lower
             /\ use_durak_stopwords' = durak
             /\ use_context_rules' = rules
             /\ custom_stopwords' = stop
             /\ custom_suffixes' = suff
             /\ pc' = "config"
             /\ UNCHANGED <<stopwords, suffixes, raised>>
    /\ UNCHANGED <<preserve_diacritics, op, arg, ret, pvars, bvars, previous>>

\* OttomanProcessor(config): lines 181-204. The stopwords are loaded before
\* the suffixes; an exception leaves no processor.
NewProcessor ==
    /\ pc = "config"
    /\ LET defaults == IF use_durak_stopwords THEN load_default_stopwords ELSE {}
           custom ==
               IF custom_stopwords.kind = "path"
               THEN load_stopwords(custom_stopwords.value)
               ELSE IF custom_stopwords.kind = "inline"
                    THEN [raises |-> "", value |-> custom_stopwords.value]
                    ELSE [raises |-> "", value |-> {}]
           loaded ==
               IF custom_suffixes.kind = "path"
               THEN load_suffixes(custom_suffixes.value)
               ELSE IF custom_suffixes.kind = "inline"
                    THEN [raises |-> "", value |-> custom_suffixes.value]
                    ELSE [raises |-> "", value |-> <<>>]
       IN  IF custom.raises # ""
           THEN /\ raised' = <<[type |-> custom.raises, about |-> custom_stopwords.value]>>
                /\ pc' = "failed"
                /\ UNCHANGED <<stopwords, suffixes>>
           ELSE IF loaded.raises # ""
           THEN /\ raised' = <<[type |-> loaded.raises, about |-> custom_suffixes.value]>>
                /\ pc' = "failed"
                /\ UNCHANGED <<stopwords, suffixes>>
           ELSE /\ stopwords' = defaults \cup custom.value
                /\ suffixes' = loaded.value
                /\ pc' = "idle"
                /\ UNCHANGED raised
    /\ UNCHANGED <<tvars, auto_transliterate, preserve_original, kvars, pvars, bvars,
                   previous>>

\* Nothing is constructed yet; the fields hold the defaults of OttomanConfig.
ConstructInit ==
    /\ use_context_rules = TRUE
    /\ preserve_diacritics = FALSE
    /\ pc = "start"
    /\ op = "none"
    /\ arg = <<>>
    /\ ret = EmptyMapping
    /\ auto_transliterate = TRUE
    /\ preserve_original = TRUE
    /\ stopwords = {}
    /\ suffixes = <<>>
    /\ language_variant = "ottoman"
    /\ lowercase = FALSE
    /\ use_durak_stopwords = TRUE
    /\ custom_stopwords = NoValue
    /\ custom_suffixes = NoValue
    /\ raised = <<>>
    /\ previous = <<>>
    /\ ProcessIdle
    /\ BatchIdle

ConstructNext == NewConfig \/ NewProcessor

ConstructSpec == ConstructInit /\ [][ConstructNext]_vars

----------------------------------------------------------------------------
(* processor.py: two OttomanProcessor instances on the same text *)

\* The characters of the texts given to both processors: an Arabic letter,
\* two scholarly letters, a Modern letter and the space.
PairChars == {"QAF", "KDOT", "AYNL", "SP", "k"}

\* The texts given to both processors.
PairTexts == SeqsUpTo(PairChars, MaxLen)

\* The suffix lists given inline as custom_suffixes.
PairSuffixes == {<<>>, << <<"k">> >>}

\* The first processor, its tokenizer output and its result, kept while the
\* second processor runs.
FirstProcessor ==
    [language_variant |-> language_variant, lowercase |-> lowercase,
     custom_stopwords |-> custom_stopwords, custom_suffixes |-> custom_suffixes,
     stopwords |-> stopwords, suffixes |-> suffixes,
     tokenized |-> tokens, result |-> result]

\* The locals of process() are gone when it has returned.
ProcessLocalsReset ==
    /\ cleaned' = <<>>
    /\ script_type' = "none"
    /\ full_mapping' = <<>>
    /\ tokens' = <<>>
    /\ search_start' = 0
    /\ trans_idx' = 0
    /\ processed_tokens' = <<>>
    /\ original_tokens_result' = <<>>
    /\ offset_mappings' = <<>>
    /\ script_types' = <<>>
    /\ result' = EmptyResult
    /\ input_type' = "none"

\* The first processor is called on a text.
ProcessFirst ==
    /\ pc = "idle"
    /\ previous = <<>>
    /\ \E text \in PairTexts :
        /\ texts' = <<text>>
        /\ StartProcess(text, TRUE)
    /\ input_type' = "str"
    /\ UNCHANGED results

\* The first call has returned. A second processor is constructed (lines
\* 186-204, collections given inline) from the configuration of the first
\* with custom_stopwords emptied, or with any other language_variant,
\* lowercase and custom_suffixes.
OtherProcessor ==
    /\ pc = "done"
    /\ previous = <<>>
    /\ previous' = <<FirstProcessor>>
    /\ \/ /\ stopwords # {}
          /\ custom_stopwords' = Inline({})
          /\ stopwords' = {}
          /\ UNCHANGED <<language_variant, lowercase, custom_suffixes, suffixes>>
       \/ /\ \E variant \in valid_variants, lower \in BOOLEAN, list \in PairSuffixes :
                /\ <<variant, lower, list>> # <<language_variant, lowercase, suffixes>>
                /\ language_variant' = variant
                /\ lowercase' = lower
                /\ custom_suffixes' = Inline(list)
                /\ suffixes' = list
          /\ UNCHANGED <<custom_stopwords, stopwords>>
    /\ ProcessLocalsReset
    /\ pc' = "idle"
    /\ UNCHANGED <<tvars, auto_transliterate, preserve_original, use_durak_stopwords,
                   bvars, raised>>

\* The second processor is called on the same text; the tokenizer is a
\* function of the text and of remove_punctuation, so it returns the tokens
\* it returned to the first.
ProcessSecond ==
    /\ pc = "idle"
    /\ previous # <<>>
    /\ StartProcess(texts[1], TRUE)
    /\ tokens' = previous[1].tokenized
    /\ input_type' = "str"
    /\ UNCHANGED bvars

\* The second call has returned; the caller drops the second processor and
\* goes on with the first.
PairReturn ==
    /\ pc = "done"
    /\ previous # <<>>
    /\ language_variant' = previous[1].language_variant
    /\ lowercase' = previous[1].lowercase
    /\ custom_stopwords' = previous[1].custom_stopwords
    /\ custom_suffixes' = previous[1].custom_suffixes
    /\ stopwords' = previous[1].stopwords
    /\ suffixes' = previous[1].suffixes
    /\ previous' = <<>>
    /\ texts' = <<>>
    /\ ProcessLocalsReset
    /\ pc' = "idle"
    /\ UNCHANGED <<tvars, auto_transliterate, preserve_original, use_durak_stopwords,
                   results, raised>>

PairNext ==
    \/ ProcessFirst
    \/ ReconcileToken
    \/ CopyToken
    \/ Finish
    \/ OtherProcessor
    \/ ProcessSecond
    \/ PairReturn

\* A first processor constructed from any configuration.
PairInit ==
    /\ use_context_rules = TRUE
    /\ preserve_diacritics = FALSE
    /\ pc = "idle"
    /\ op = "none"
    /\ arg = <<>>
    /\ ret = EmptyMapping
    /\ auto_transliterate \in BOOLEAN
    /\ preserve_original \in BOOLEAN
    /\ stopwords \in {{}, {<<"k">>}}
    /\ suffixes = <<>>
    /\ ConstructedInline
    /\ ProcessIdle
    /\ BatchIdle

PairSpec == PairInit /\ [][PairNext]_vars

----------------------------------------------------------------------------
(* Properties of the transliterator *)

Returned(name) == pc = "returned" /\ op = name

\* One of the three conversions has returned.
ReturnedConversion ==
    pc = "returned" /\ op \in {"scholarly_to_modern", "arabic_to_latin", "arabic_to_modern"}

\* The text the single-stage call in ret emitted for character k (1-based)
\* of ret.original.
Emitted(k) ==
    IF op = "arabic_to_latin"
    THEN ArabicLatinChar(ret.original, k - 1)
    ELSE ModernChar(ret.original[k])

\* C1: scholarly_to_modern and arabic_to_latin return one span per character
\* of mapping.original; span k is (k, k+1, t_k, t_k + w_k) with t_0 = 0,
\* t_(k+1) = t_k + w_k, w_k the length of the text emitted for character k,
\* that text stands at [t_k, t_k + w_k) of the transliterated text, and the
\* last trans_end is len(transliterated).
C1_OneSpanPerCharacter ==
    (Returned("scholarly_to_modern") \/ Returned("arabic_to_latin")) =>
        LET cm == ret.char_mappings
            n == Len(ret.original)
        IN  /\ Len(cm) = n
            /\ \A k \in 1..n :
                  /\ cm[k][1] = k - 1
                  /\ cm[k][2] = k
                  /\ cm[k][3] = (IF k = 1 THEN 0 ELSE cm[k - 1][4])
                  /\ cm[k][4] = cm[k][3] + Len(Emitted(k))
                  /\ SubSeq(ret.transliterated, cm[k][3] + 1, cm[k][4]) = Emitted(k)
            /\ Len(ret.transliterated) = (IF n = 0 THEN 0 ELSE cm[n][4])

\* arabic_to_latin returned a mapping with a zero-width span and a span that
\* is two characters wide.
C1_Witness ==
    /\ Returned("arabic_to_latin")
    /\ Len(ret.original) = MaxLen
    /\ \E k \in 1..Len(ret.char_mappings) : ret.char_mappings[k][4] = ret.char_mappings[k][3]
    /\ \E k \in 1..Len(ret.char_mappings) : ret.char_mappings[k][4] = ret.char_mappings[k][3] + 2

\* C2: the [orig_start, orig_end) ranges of arabic_to_modern(s) are
\* consecutive, start at 0 and end at len(original): every index of the
\* original text is covered exactly once.
C2_OriginalCoverage ==
    Returned("arabic_to_modern") =>
        LET cm == ret.char_mappings
        IN  /\ \A k \in 1..Len(cm) :
                  /\ cm[k][1] = (IF k = 1 THEN 0 ELSE cm[k - 1][2])
                  /\ cm[k][1] < cm[k][2]
            /\ Len(ret.original) = (IF cm = <<>> THEN 0 ELSE cm[Len(cm)][2])

\* C3: every index of arabic_to_modern(s).transliterated lies in the
\* [trans_start, trans_end) range of exactly one span.
C3_TransliteratedCoverage ==
    Returned("arabic_to_modern") =>
        \A p \in 0..(Len(ret.transliterated) - 1) :
            Cardinality({k \in 1..Len(ret.char_mappings) :
                ret.char_mappings[k][3] <= p /\ p < ret.char_mappings[k][4]}) = 1

\* C4: in every returned mapping successive spans have non-decreasing
\* orig_start and trans_start, and each trans_start is at least the previous
\* span's trans_end.
C4_Monotonic ==
    ReturnedConversion =>
        \A k \in 2..Len(ret.char_mappings) :
            /\ ret.char_mappings[k][1] >= ret.char_mappings[k - 1][1]
            /\ ret.char_mappings[k][3] >= ret.char_mappings[k - 1][3]
            /\ ret.char_mappings[k][3] >= ret.char_mappings[k - 1][4]

\* arabic_to_modern returned three spans, one of them of width zero and one
\* two characters wide.
C4_Witness ==
    /\ Returned("arabic_to_modern")
    /\ Len(ret.char_mappings) = 3
    /\ \E k \in 1..3 : ret.char_mappings[k][4] = ret.char_mappings[k][3]
    /\ \E k \in 1..3 : ret.char_mappings[k][4] = ret.char_mappings[k][3] + 2

\* The text a call renders character k (1-based) of the normalized source as;
\* for arabic_to_modern, the scholarly text of the first stage.
Rendering(text, k) ==
    IF op = "scholarly_to_modern" THEN ModernChar(text[k]) ELSE ArabicLatinChar(text, k - 1)

\* C5: a source character whose rendering is the empty string still has a
\* span, with trans_start = trans_end and 0 <= trans_start <= len(transliterated).
C5_DeletedCharacterHasSpan ==
    ReturnedConversion =>
        LET text == normalize_diacritics(arg)
        IN  \A k \in 1..Len(text) :
                Rendering(text, k) = <<>> =>
                    \E j \in 1..Len(ret.char_mappings) :
                        /\ ret.char_mappings[j][1] = k - 1
                        /\ ret.char_mappings[j][2] = k
                        /\ ret.char_mappings[j][3] = ret.char_mappings[j][4]
                        /\ 0 <= ret.char_mappings[j][3]
                        /\ ret.char_mappings[j][3] <= Len(ret.transliterated)

\* C6: for every span (o_s, o_e, s_s, s_e) of arabic_to_latin(s),
\* arabic_to_modern(s) has the span (o_s, o_e, m_s, m_e) with m_s the
\* trans_start of the second-stage span of scholarly character s_s and m_e the
\* trans_end of the second-stage span of character s_e - 1, and m_s = m_e when
\* [s_s, s_e) is empty.
C6_ComposedSpans ==
    Returned("arabic_to_modern") =>
        LET first == arabic_to_latin(arg)
            second == scholarly_to_modern(first.transliterated).char_mappings
            StageTwo(c) == {j \in 1..Len(second) : second[j][1] = c}
        IN  \A k \in 1..Len(first.char_mappings) :
                LET o_s == first.char_mappings[k][1]
                    o_e == first.char_mappings[k][2]
                    s_s == first.char_mappings[k][3]
                    s_e == first.char_mappings[k][4]
                IN  \E j \in 1..Len(ret.char_mappings) :
                        /\ ret.char_mappings[j][1] = o_s
                        /\ ret.char_mappings[j][2] = o_e
                        /\ IF s_s = s_e
                           THEN ret.char_mappings[j][3] = ret.char_mappings[j][4]
                           ELSE /\ \E a \in StageTwo(s_s) : ret.char_mappings[j][3] = second[a][3]
                                /\ \E b \in StageTwo(s_e - 1) : ret.char_mappings[j][4] = second[b][4]

\* C7: arabic_to_modern(s).transliterated is
\* scholarly_to_modern(arabic_to_latin(s).transliterated).transliterated.
C7_TwoStageText ==
    Returned("arabic_to_modern") =>
        ret.transliterated = scholarly_to_modern(arabic_to_latin(arg).transliterated).transliterated

\* arabic_to_modern returned a Modern text that differs from the scholarly
\* text of the first stage.
C7_Witness ==
    /\ Returned("arabic_to_modern")
    /\ Len(arg) = MaxLen
    /\ ret.transliterated # arabic_to_latin(arg).transliterated
    /\ ret.transliterated # <<>>

\* The text between the transliterated offsets of span j of ret.
SpanText(j) ==
    SubSeq(ret.transliterated, ret.char_mappings[j][3] + 1, ret.char_mappings[j][4])

\* The base letter of the scholarly rendering of character c.
BaseLetter(c) == get_base(ArabicToLatinGet(c))

\* C15: with context rules enabled, arabic_to_latin renders kef as "k" when
\* it is the first character of the string and as "g" when the characters
\* right before and right after it both have base letter "a".
C15_KefContextRules ==
    (Returned("arabic_to_latin") /\ use_context_rules) =>
        \A k \in 1..Len(ret.original) :
            ret.original[k] = "KEF" =>
                /\ k = 1 => SpanText(k) = <<"k">>
                /\ ( /\ 1 < k
                     /\ k < Len(ret.original)
                     /\ BaseLetter(ret.original[k - 1]) = "a"
                     /\ BaseLetter(ret.original[k + 1]) = "a" ) => SpanText(k) = <<"g">>

NoScholarlyDiacritic(text) ==
    \A i \in 1..Len(text) : text[i] \notin SCHOLARLY_DIACRITIC_CHARS

\* C16 as stated: for a string s that contains no scholarly-diacritic
\* character, scholarly_to_modern(s).transliterated is s.
C16_IdentityWithoutDiacritics ==
    (Returned("scholarly_to_modern") /\ NoScholarlyDiacritic(arg)) =>
        ret.transliterated = arg

\* C16 as amended: for a string s whose NFC form contains no
\* scholarly-diacritic character, scholarly_to_modern(s).transliterated is
\* the NFC form of s.
C16_IdentityOnNormalForm ==
    (Returned("scholarly_to_modern") /\ NoScholarlyDiacritic(normalize_diacritics(arg))) =>
        ret.transliterated = normalize_diacritics(arg)

\* scholarly_to_modern returned for a text of full length without a
\* scholarly-diacritic character in its NFC form, which has a letter of the
\* table, a character without a table entry and a composed character.
C16_Witness ==
    /\ Returned("scholarly_to_modern")
    /\ Len(arg) = MaxLen
    /\ NoScholarlyDiacritic(normalize_diacritics(arg))
    /\ normalize_diacritics(arg) # arg
    /\ \E i \in 1..Len(ret.original) : ret.original[i] \in DOMAIN SCHOLARLY_TO_MODERN
    /\ \E i \in 1..Len(ret.original) : ret.original[i] \notin DOMAIN SCHOLARLY_TO_MODERN

\* Character k (1-based) of the normalized text has no table entry and no
\* context rule in the first stage: it is not Arabic, or it is an Arabic
\* character outside ARABIC_TO_LATIN that no context rule matches.
ArabicUnmapped(text, k) ==
    is_arabic_char(text[k]) =>
        /\ text[k] \notin DOMAIN ARABIC_TO_LATIN
        /\ apply_context_rules(IF k > 1 THEN text[k - 1] ELSE NONE, text[k],
                               IF k < Len(text) THEN text[k + 1] ELSE NONE) = <<>>

\* Character k of the normalized text has no table entry and no context
\* rule in the conversions the call applies to it.
Unmapped(text, k) ==
    CASE op = "arabic_to_latin" -> ArabicUnmapped(text, k)
      [] op = "scholarly_to_modern" -> text[k] \notin DOMAIN SCHOLARLY_TO_MODERN
      [] op = "arabic_to_modern" ->
            ArabicUnmapped(text, k) /\ text[k] \notin DOMAIN SCHOLARLY_TO_MODERN
      [] OTHER ->
            /\ contains_arabic(text) => ArabicUnmapped(text, k)
            /\ text[k] \notin DOMAIN SCHOLARLY_TO_MODERN

\* C17: arabic_to_latin, scholarly_to_modern, arabic_to_modern and
\* auto_transliterate return a mapping for every string, and every character
\* of the normalized text without a table entry and without a context rule
\* stands unchanged in the transliterated text at the position of its span.
C17_UnmappedPassThrough ==
    pc = "returned" =>
        /\ DOMAIN ret = {"original", "transliterated", "char_mappings", "ambiguous_chars"}
        /\ LET text == normalize_diacritics(arg)
           IN  \A k \in 1..Len(text) :
                   Unmapped(text, k) =>
                       \E j \in 1..Len(ret.char_mappings) :
                           /\ ret.char_mappings[j][1] = k - 1
                           /\ ret.char_mappings[j][2] = k
                           /\ SpanText(j) = <<text[k]>>

\* The spans of ret whose transliterated range contains p.
SpansAt(p) ==
    {j \in 1..Len(ret.char_mappings) :
        ret.char_mappings[j][3] <= p /\ p < ret.char_mappings[j][4]}

\* The spans of ret whose original range contains o.
SpansOf(o) ==
    {j \in 1..Len(ret.char_mappings) :
        ret.char_mappings[j][1] <= o /\ o < ret.char_mappings[j][2]}

\* C18: for a mapping m returned by a conversion, m.get_original_offset(p)
\* is the orig_start of the span whose transliterated range contains p for
\* 0 <= p < len(m.transliterated), m.get_transliterated_offset(o) is the
\* trans_start of the span whose original range contains o for
\* 0 <= o < len(m.original), and each returns -1 exactly when its argument
\* is outside that range.
C18_OffsetQueries ==
    ReturnedConversion =>
        /\ \A p \in (-1)..Len(ret.transliterated) :
              LET found == get_original_offset(ret, p)
                  inside == 0 <= p /\ p < Len(ret.transliterated)
              IN  /\ inside => \E j \in SpansAt(p) : found = ret.char_mappings[j][1]
                  /\ (found = -1) <=> ~inside
        /\ \A o \in (-1)..Len(ret.original) :
              LET found == get_transliterated_offset(ret, o)
                  inside == 0 <= o /\ o < Len(ret.original)
              IN  /\ inside => \E j \in SpansOf(o) : found = ret.char_mappings[j][3]
                  /\ (found = -1) <=> ~inside

\* C19: for a mapping m returned by scholarly_to_modern with a non-empty
\* transliterated text, m.get_token_offsets(0, len(m.transliterated)) is
\* (0, len(m.original)), also when the original begins or ends with a
\* character that the Modern form deletes.
C19_WholeTextOffsets ==
    (Returned("scholarly_to_modern") /\ ret.transliterated # <<>>) =>
        get_token_offsets(ret, 0, Len(ret.transliterated)) = <<0, Len(ret.original)>>

\* A constraint of a context rule is unset, or it is the base letter of the
\* neighbour or the neighbour itself.
ConstraintMet(constraint, neighbour) ==
    \/ constraint = NONE
    \/ /\ neighbour # NONE
       /\ constraint = BaseLetter(neighbour) \/ constraint = neighbour

\* Context rule r is for character k (1-based) of the text and its
\* constraints are met by the neighbours of the character.
RuleMatches(r, text, k) ==
    /\ CONTEXT_RULES[r][2] = text[k]
    /\ ConstraintMet(CONTEXT_RULES[r][1], IF k > 1 THEN text[k - 1] ELSE NONE)
    /\ ConstraintMet(CONTEXT_RULES[r][3], IF k < Len(text) THEN text[k + 1] ELSE NONE)

\* C24: for each Arabic character c arabic_to_latin emits, with context rules
\* enabled, the resolution of the first rule in declaration order whose
\* source character is c and whose constraints are each unset or equal to
\* the neighbour's base letter or the neighbour; if no rule matches or
\* context rules are disabled, ARABIC_TO_LATIN[c] when c is in the table and
\* c itself otherwise.
C24_FirstMatchingRule ==
    Returned("arabic_to_latin") =>
        \A k \in 1..Len(ret.original) :
            LET c == ret.original[k]
                matching == {r \in 1..Len(CONTEXT_RULES) : RuleMatches(r, ret.original, k)}
                first == CHOOSE r \in matching : \A q \in matching : r <= q
            IN  is_arabic_char(c) =>
                    SpanText(k) =
                        IF use_context_rules /\ matching # {} THEN CONTEXT_RULES[first][4]
                        ELSE IF c \in DOMAIN ARABIC_TO_LATIN THEN ARABIC_TO_LATIN[c]
                        ELSE <<c>>

\* arabic_to_latin resolved a vav between "k" and "p" by the last rule of
\* the list.
C24_Witness ==
    /\ Returned("arabic_to_latin")
    /\ use_context_rules
    /\ arg = <<"k", "VAV", "p">>
    /\ ret.transliterated = <<"k", "u", "p">>

\* The list holds exactly one record (i, c, r) for each position i of the
\* text that holds a character c of AMBIGUOUS_MAPPINGS, in increasing order
\* of i, with r the scholarly text emitted for the character.
AmbiguityRecordsOf(list, text, scholarly) ==
    /\ Len(list) = Cardinality({k \in 1..Len(text) : text[k] \in AMBIGUOUS_MAPPINGS})
    /\ \A j \in 1..Len(list) :
          LET i == list[j][1]
              cm == scholarly.char_mappings
          IN  /\ 0 <= i
              /\ i < Len(text)
              /\ text[i + 1] \in AMBIGUOUS_MAPPINGS
              /\ list[j][2] = text[i + 1]
              /\ i < Len(cm)
              /\ list[j][3] = SubSeq(scholarly.transliterated, cm[i + 1][3] + 1, cm[i + 1][4])
              /\ j > 1 => list[j - 1][1] < i

\* C25 as stated: arabic_to_latin(s).ambiguous_chars has exactly one record
\* (i, c, r) for each position i of s that holds a character c of
\* AMBIGUOUS_MAPPINGS, in increasing order of i, r being the text emitted for
\* the character, and arabic_to_modern(s).ambiguous_chars is the same list.
C25_AmbiguityRecordsOfInput ==
    (Returned("arabic_to_latin") \/ Returned("arabic_to_modern")) =>
        /\ AmbiguityRecordsOf(ret.ambiguous_chars, arg, arabic_to_latin(arg))
        /\ ret.ambiguous_chars = arabic_to_latin(arg).ambiguous_chars

\* C25 as amended: the records are those of the positions of the NFC normal
\* form of s, which is arabic_to_latin(s).original.
C25_AmbiguityRecordsOfNormalForm ==
    (Returned("arabic_to_latin") \/ Returned("arabic_to_modern")) =>
        /\ AmbiguityRecordsOf(ret.ambiguous_chars, normalize_diacritics(arg),
                              arabic_to_latin(arg))
        /\ ret.ambiguous_chars = arabic_to_latin(arg).ambiguous_chars

\* arabic_to_modern returned the records of two ambiguous characters, a qaf
\* and a kef or a vav, for a text with a third character.
C25_Witness ==
    /\ Returned("arabic_to_modern")
    /\ Len(arg) = 3
    /\ Len(ret.ambiguous_chars) = 2
    /\ ret.ambiguous_chars[1][2] # ret.ambiguous_chars[2][2]

\* C26: where the input holds the tenvin digraph, the two-character key of
\* ARABIC_TO_LATIN, arabic_to_latin emits the table value of the sequence as
\* a whole ("an") and records a single span whose original range covers both
\* characters.
C26_TenvinDigraph ==
    Returned("arabic_to_latin") =>
        \A k \in 1..(Len(ret.original) - 1) :
            SubSeq(ret.original, k, k + 1) = TENVIN =>
                \E j \in 1..Len(ret.char_mappings) :
                    /\ ret.char_mappings[j][1] = k - 1
                    /\ ret.char_mappings[j][2] = k + 1
                    /\ SpanText(j) = ARABIC_TO_LATIN["FATHATAN_ELIF"]

----------------------------------------------------------------------------
(* Properties of the processor *)

\* The tokenizer returned the words of the text unchanged.
WordTokens == tokens = tokenize(text_for_tokenization)

\* C8: for every token i of a result of process() on Arabic or scholarly
\* text, get_offsets_for_token(result, i) is a pair (start, end) and
\* cleaned[start:end] is the original form of token i.
C8_TokenOffsetsInOriginal ==
    (pc = "done" /\ script_type \in {"arabic", "scholarly_latin"} /\ WordTokens) =>
        \A i \in 0..(Len(result.tokens) - 1) :
            LET offsets == get_offsets_for_token(result, i)
            IN  /\ offsets # <<>>
                /\ Slice(cleaned, offsets[1], offsets[2])
                       = result.offset_mappings[i + 1].original

\* A reconciliation step: process() handles the next token of a
\* transliterated text.
ReconcileStep ==
    /\ pc = "reconcile"
    /\ full_mapping # <<>>
    /\ Len(processed_tokens') = Len(processed_tokens) + 1

\* The token handled by a reconciliation step.
NextToken == tokens[Len(processed_tokens) + 1]

\* The token of a reconciliation step occurs, case-insensitively, at index p
\* of the transliterated text.
OccursAt(p) ==
    LET needle == Lower(NextToken)
        haystack == Lower(text_for_tokenization)
    IN  /\ p + Len(needle) <= Len(haystack)
        /\ SubSeq(haystack, p + 1, p + Len(needle)) = needle

\* C9: the search cursor starts at 0 and never decreases during a call; a
\* token that occurs at or after the cursor is located at the smallest such
\* index, which is at or after the end of the previous token's located range,
\* and the cursor moves to the end of the token's located range.
C9_ForwardSearch ==
    [][ /\ (pc = "idle" /\ pc' = "reconcile") => search_start' = 0
        /\ (pc = "reconcile" /\ pc' # "idle") => search_start' >= search_start
        /\ ReconcileStep =>
              /\ trans_idx' >= search_start
              /\ Len(processed_tokens) > 0 =>
                    trans_idx' >= trans_idx + Len(tokens[Len(processed_tokens)])
              /\ search_start' = trans_idx' + Len(NextToken)
              /\ (\E p \in search_start..Len(text_for_tokenization) : OccursAt(p)) =>
                    /\ OccursAt(trans_idx')
                    /\ \A p \in search_start..(trans_idx' - 1) : ~OccursAt(p)
      ]_vars

\* The second token of a text is the first one again, possibly in another
\* case, and was located after it.
C9_Witness ==
    /\ pc = "reconcile"
    /\ Len(processed_tokens) = 2
    /\ Lower(tokens[1]) = Lower(tokens[2])
    /\ tokens[1] # tokens[2]
    /\ trans_idx >= Len(tokens[1])
    /\ SubSeq(Lower(text_for_tokenization), trans_idx + 1, trans_idx + Len(tokens[2]))
           = Lower(tokens[2])

\* C10: a token that does not occur in the transliterated text at or after
\* the cursor gets an identity mapping: its original text is the token itself
\* and its span is (0, len(token), 0, len(token)).
C10_NotFoundIsIdentity ==
    [][ (ReconcileStep /\ ~\E p \in search_start..Len(text_for_tokenization) : OccursAt(p)) =>
            LET token_mapping == offset_mappings'[Len(offset_mappings')]
            IN  /\ token_mapping.original = NextToken
                /\ token_mapping.char_mappings
                       = << <<0, Len(NextToken), 0, Len(NextToken)>> >>
      ]_vars

\* C11: in every result of process(), with or without stopword filtering,
\* tokens, offset_mappings and script_types have the same length, and so has
\* original_tokens when it is not None; entry i of each describes the same
\* token: original_tokens[i] is offset_mappings[i].original and tokens[i] is
\* offset_mappings[i].transliterated or offset_mappings[i].original.
C11_ParallelSequences ==
    pc = "done" =>
        /\ Len(result.offset_mappings) = Len(result.tokens)
        /\ Len(result.script_types) = Len(result.tokens)
        /\ result.original_tokens # <<>> =>
              Len(result.original_tokens[1]) = Len(result.tokens)
        /\ \A i \in 1..Len(result.tokens) :
              /\ result.original_tokens # <<>> =>
                    result.original_tokens[1][i] = result.offset_mappings[i].original
              /\ \/ result.tokens[i] = result.offset_mappings[i].transliterated
                 \/ result.tokens[i] = result.offset_mappings[i].original

\* process() returned a result from which the stopword filter removed some
\* tokens and kept others, with the original tokens preserved.
C11_Witness ==
    /\ pc = "done"
    /\ stopwords # {}
    /\ result.original_tokens # <<>>
    /\ Len(result.tokens) > 0
    /\ Len(result.tokens) < Len(processed_tokens)

\* The per-token mappings, before filtering, whose lowercase Modern form is
\* not a stopword.
NotStopword(mapping) == Lower(mapping.transliterated) \notin stopwords

\* C12: with a non-empty stopword set process() drops a token exactly when
\* the lowercase of its Modern form is in the set, whether auto_transliterate
\* is set or not.
C12_StopwordCriterion ==
    (pc = "done" /\ stopwords # {}) =>
        /\ result.offset_mappings = SelectSeq(offset_mappings, NotStopword)
        /\ Len(result.tokens) = Len(SelectSeq(offset_mappings, NotStopword))

\* The script a text is to be classified as.
ScriptOf(text) ==
    IF \E i \in 1..Len(text) : is_arabic_char(text[i]) THEN "arabic"
    ELSE IF \E i \in 1..Len(text) : text[i] \in SCHOLARLY_DIACRITIC_CHARS
         THEN "scholarly_latin"
    ELSE "modern_latin"

C20_OutputTokenForm ==
    [][ ReconcileStep =>
          LET output_token == processed_tokens'[Len(processed_tokens')]
              token_mapping == offset_mappings'[Len(offset_mappings')]
              cm == full_mapping[1].char_mappings
              orig_start == get_original_offset(full_mapping[1], trans_idx')
              last == trans_idx' + Len(NextToken) - 1
          IN  /\ token_mapping.transliterated = NextToken
              /\ auto_transliterate => output_token = NextToken
              /\ ~auto_transliterate =>
                    /\ orig_start >= 0
                    /\ \E j \in 1..Len(cm) :
                          /\ cm[j][3] <= last /\ last < cm[j][4]
                          /\ output_token = Slice(cleaned, orig_start, cm[j][2])
      ]_vars

\* C28: on scholarly-Latin text, the original token reconciled for a token
\* that the forward search finds transliterates back to the token's located
\* range: scholarly_to_modern(original_token).transliterated is the
\* transliterated text at [trans_idx, trans_idx + len(token)).
C28_OriginalTransliteratesBack ==
    [][ ( /\ ReconcileStep
          /\ script_type = "scholarly_latin"
          /\ \E p \in search_start..Len(text_for_tokenization) : OccursAt(p) ) =>
            LET original_token == offset_mappings'[Len(offset_mappings')].original
            IN  scholarly_to_modern(original_token).transliterated
                    = SubSeq(text_for_tokenization, trans_idx' + 1,
                             trans_idx' + Len(NextToken))
      ]_vars

\* process() reconciled, on scholarly-Latin text, a second token whose
\* original form is longer than the token because the Modern form deletes a
\* character inside it or the token stands for a dotted letter.
C28_Witness ==
    /\ pc = "reconcile"
    /\ script_type = "scholarly_latin"
    /\ Len(offset_mappings) >= 1
    /\ LET last == offset_mappings[Len(offset_mappings)]
       IN  /\ Len(last.original) = 3
           /\ Len(last.transliterated) = 2
           /\ last.original # last.transliterated
           /\ Lower(last.transliterated)
                  = SubSeq(text_for_tokenization, trans_idx + 1, trans_idx + 2)

----------------------------------------------------------------------------
(* Properties of process_batch *)

\* The results of the batch so far: at most one per text, equal for equal
\* texts, and result i carries the classification of text i.
BatchResultsAgree ==
    /\ Len(results) <= Len(texts)
    /\ \A i, j \in 1..Len(results) : texts[i] = texts[j] => results[i] = results[j]
    /\ \A i \in 1..Len(results) :
          \A k \in 1..Len(results[i].script_types) :
              results[i].script_types[k]
                  = ScriptOf(clean_text(normalize_diacritics(texts[i])))

\* C13: process_batch(texts) returns one result per text in input order;
\* process() leaves the configuration, the stopword set, the suffix list and
\* the transliterator unchanged, so the result for a text is the same
\* wherever the text stands in the batch and whatever was processed before.
C13_BatchIndependence ==
    /\ []BatchResultsAgree
    /\ [][ /\ UNCHANGED <<cvars, use_context_rules, preserve_diacritics>>
           /\ (pc = "batch" /\ pc' = "idle") => Len(results) = Len(texts)
         ]_vars

\* A batch of three texts is complete: the first and the third are the same
\* text, the second is another one with another result, and the stopword
\* filter is on.
C13_Witness ==
    /\ pc = "batch"
    /\ Len(results) = 3
    /\ texts[1] # texts[2]
    /\ results[1] # results[2]
    /\ results[1].tokens # <<>>
    /\ stopwords # {}

\* C21: process(x) with x not a string (a number, None, bytes, a list) fails
\* with ConfigurationError as the first step: nothing of the call has run,
\* no text was cleaned, classified, transliterated or tokenized, and there
\* is no result.
C21_NonTextRejectedFirst ==
    /\ [](pc = "rejected" =>
            /\ cleaned = <<>>
            /\ script_type = "none"
            /\ full_mapping = <<>>
            /\ tokens = <<>>
            /\ processed_tokens = <<>>
            /\ result = EmptyResult)
    /\ [][ (pc = "idle" /\ input_type' \notin {"none", "str"}) =>
              /\ pc' = "rejected"
              /\ raised' = << [type |-> "ConfigurationError", about |-> input_type'] >>
              /\ UNCHANGED <<lvars, cvars, tvars>>
         ]_vars

\* process() was called on bytes and raised.
C21_Witness ==
    /\ pc = "rejected"
    /\ input_type = "bytes"
    /\ raised # <<>>

----------------------------------------------------------------------------
(* Properties of construction *)

\* The file a path names cannot be loaded as the collection under the key:
\* it is missing, unreadable, not valid JSON, or JSON that is neither a list
\* nor an object with that key.
Unloadable(source, object_with_key) ==
    /\ source.kind = "path"
    /\ source.value \notin {"json_list", object_with_key}

\* C22: constructing OttomanProcessor with custom_stopwords or
\* custom_suffixes given as a path to a file that is missing, unreadable, not
\* valid JSON, or JSON that is neither a list nor an object with the
\* 'stopwords' / 'suffixes' key fails with ResourceError; no other error
\* escapes and no processor is produced.
C22_LoadFailureIsResourceError ==
    [][ ( /\ pc = "config"
          /\ \/ Unloadable(custom_stopwords, "json_stopwords_object")
             \/ Unloadable(custom_suffixes, "json_suffixes_object") ) =>
            /\ pc' = "failed"
            /\ raised' # <<>>
            /\ raised'[1].type = "ResourceError"
            /\ UNCHANGED <<stopwords, suffixes>>
      ]_vars

\* C23: constructing OttomanConfig succeeds if and only if language_variant
\* is one of "ottoman", "modern", "mixed"; any other value of the field fails
\* with ConfigurationError, so every configuration, and every processor
\* built from one, has one of the three variants.
C23_VariantValidated ==
    /\ [](pc \in {"config", "idle"} => language_variant \in {"ottoman", "modern", "mixed"})
    /\ [][ pc = "start" =>
             \/ /\ pc' = "config"
                /\ language_variant' \in {"ottoman", "modern", "mixed"}
                /\ raised' = <<>>
             \/ /\ pc' = "failed"
                /\ raised' # <<>>
                /\ raised'[1].type = "ConfigurationError"
                /\ raised'[1].about \notin {"ottoman", "modern", "mixed"}
                /\ UNCHANGED cvars
         ]_vars

\* The variant "Ottoman", which differs from a valid one in case only, was
\* rejected.
C23_Witness ==
    /\ pc = "failed"
    /\ raised = <<[type |-> "ConfigurationError", about |-> "Ottoman"]>>

----------------------------------------------------------------------------
(* Properties of two processors on the same text *)

\* The second processor has returned its result for the text of the first.
SecondReturned == pc = "done" /\ previous # <<>>

\* The indices of the tokens that, lowercased, are not in S.
Surviving(toks, S) ==
    SelectSeq([i \in 1..Len(toks) |-> i], LAMBDA i : Lower(toks[i]) \notin S)

Restrict(list, indices) == [j \in 1..Len(indices) |-> list[indices[j]]]

\* A result restricted to the tokens that survive S.
Restricted(res, S) ==
    LET surviving == Surviving(res.tokens, S)
    IN  [tokens |-> Restrict(res.tokens, surviving),
         original_tokens |-> IF res.original_tokens = <<>> THEN <<>>
                             ELSE <<Restrict(res.original_tokens[1], surviving)>>,
         offset_mappings |-> Restrict(res.offset_mappings, surviving),
         script_types |-> Restrict(res.script_types, surviving),
         token_count |-> Len(surviving),
         language_variant |-> res.language_variant,
         auto_transliterated |-> res.auto_transliterated]

\* C27: the result of process() with a non-empty stopword set S is the
\* result of process() with the empty stopword set restricted to the tokens
\* that, lowercased, are not in S: order, original tokens, mappings and
\* script types are those computed without the filter, and token_count is
\* the number of surviving tokens.
C27_FilterRestrictsUnfiltered ==
    ( /\ SecondReturned
      /\ previous[1].stopwords # {}
      /\ stopwords = {} ) =>
        previous[1].result = Restricted(result, previous[1].stopwords)

\* A processor with stopwords dropped one token and kept another of a text
\* that the processor without stopwords has then processed.
C27_Witness ==
    /\ SecondReturned
    /\ previous[1].stopwords # {}
    /\ stopwords = {}
    /\ previous[1].result.token_count >= 1
    /\ result.token_count > previous[1].result.token_count
    /\ previous[1].result.tokens[1] # result.tokens[1]

----------------------------------------------------------------------------
(* Properties of script detection *)

\* The codepoint lies in the Arabic block U+0600..U+06FF, the Arabic
\* Supplement block U+0750..U+077F or the Arabic Extended-A block
\* U+08A0..U+08FF, endpoints included.
InArabicBlocks(code) ==
    \/ 1536 <= code /\ code <= 1791
    \/ 1872 <= code /\ code <= 1919
    \/ 2208 <= code /\ code <= 2303

\* C30: is_arabic_char(c) is true exactly when the codepoint of the
\* character c lies in one of the three Arabic blocks, both endpoints of each
\* block included; it is false for the empty string; contains_arabic(text) is
\* true exactly when some character of text satisfies is_arabic_char.
C30_ArabicBlocksInclusive ==
    /\ Returned("is_arabic_char") =>
        ret = (arg # <<>> /\ InArabicBlocks(CodePoint(arg[1])))
    /\ Returned("contains_arabic") =>
        ret = (\E i \in 1..Len(arg) : is_arabic_char_call(<<arg[i]>>))

====
